---- MODULE Spec2Model ----
(***************************************************************************)
(* Relaxation solver for the discretised Poisson equation on a 3D lattice  *)
(* (PoissonLattice and the driving loop of main).                          *)
(*                                                                         *)
(* Numbers of type double are modelled as fixed-point integers: the real   *)
(* value v is the integer v * Scale, and every division rounds to the      *)
(* nearest unit, as a floating-point division rounds to the nearest        *)
(* representable value.  Only finite values are modelled.                  *)
(***************************************************************************)
EXTENDS Integers, Sequences, FiniteSets, TLC

VARIABLES
    pc,                 \* position of main
    xRange, yRange, zRange,     \* m_xRange, m_yRange, m_zRange (both lattices)
    permittivity,       \* m_permativity
    spaceStep,          \* m_dx
    currentLattice,     \* [potential, chargeDensity] of currentLattice
    updatedLattice,     \* [potential, chargeDensity] of updatedLattice
    solutionMethod,     \* selected branch of the switch
    sorParameter,       \* omega, a rational [num, den]
    precision,          \* convergence threshold
    counter,            \* number of sweeps started
    convergence,        \* value returned by the last completed sweep
    convergenceMeasure, \* accumulator local to the running update function
    cell,               \* position of the running sweep in the loop nest
    runStart,           \* history: both potentials when the loop was entered
    sweepStart,         \* history: both potentials when the sweep began
    written,            \* history: cells written by the running sweep, in order
    outputResults,      \* history: iterations each method's execution reported
    poissonOutput,      \* rows written by operator<<, per cell
    build               \* what the build and the heap decide: the overload an
                        \* unqualified abs resolves to, and the value a read
                        \* beyond a vector's end produces

vars == <<pc, xRange, yRange, zRange, permittivity, spaceStep, currentLattice,
          updatedLattice, solutionMethod, sorParameter, precision, counter,
          convergence, convergenceMeasure, cell, runStart, sweepStart, written,
          outputResults, poissonOutput, build>>

----------------------------------------------------------------------------
(* Bounds of the model and the fixed-point representation.                 *)

\* One unit of potential: 1.0 is Scale, the resolution is 1/Scale.
Scale == 10^8

\* Largest and smallest lattice dimension tried by the general run.
MaxDim == 4
NegDim == 1

\* Sweeps a general run may start before the model stops following it.
MaxSweeps == 3

\* Sweeps a run of the 5x5x5 point-charge configuration may start.
IterationBound == 150

\* Seeds tried for the random engine, and levels of its uniform samples.
MaxSeed == 1
NoiseLevels == 4

\* Field patterns tried for lattices written through operator().
MaxPattern == 2

\* The model follows a sweep while no potential exceeds ValueCap in magnitude
\* and the accumulated measure does not exceed MeasureCap: within these caps
\* every intermediate value of a pass fits the model's integers.
ValueCap == Scale
MeasureCap == 10 * Scale

DimValues == (0 - NegDim)..MaxDim

Abs(v) == IF v < 0 THEN 0 - v ELSE v

\* Division rounded to the nearest unit (d > 0).
RoundDiv(n, d) == (n + (d \div 2)) \div d

\* C++ integer division, truncating toward zero (d > 0).
TruncDiv(n, d) == IF n >= 0 THEN n \div d ELSE 0 - ((0 - n) \div d)

Zeroes(n) == [idx \in 0..(n - 1) |-> 0]

NoLattice == [potential |-> Zeroes(0), chargeDensity |-> Zeroes(0)]

----------------------------------------------------------------------------
(* PoissonLattice                                                          *)

\* Mutant of Index: the row stride is the y range instead of the x range.
IndexYStride(i, j, k) == i + j * yRange + k * xRange * yRange

\* The flat index of coordinate (i,j,k).
Index(i, j, k) == i + j * xRange + k * xRange * yRange

\* Size of m_potential and m_chargeDensity.
LatticeSize == xRange * yRange * zRange

\* operator()(i,j,k) const
At(lattice, i, j, k) == lattice.potential[Index(i, j, k)]

\* Mutant of SetAt: the write lands one cell lower along z.
SetAtShifted(lattice, i, j, k, value) ==
    [lattice EXCEPT !.potential[Index(i, j, k - 1)] = value]

\* operator()(i,j,k) = value
SetAt(lattice, i, j, k, value) ==
    [lattice EXCEPT !.potential[Index(i, j, k)] = value]

getChargeDensity(lattice, i, j, k) == lattice.chargeDensity[Index(i, j, k)]

setChargeDensity(lattice, i, j, k, charge) ==
    [lattice EXCEPT !.chargeDensity[Index(i, j, k)] = charge]

\* (pow(m_dx,2)/m_permativity) * getChargeDensity(i,j,k)
SourceTerm(lattice, i, j, k) ==
    RoundDiv(spaceStep * spaceStep * getChargeDensity(lattice, i, j, k),
             permittivity)

nextValueJacobi(lattice, i, j, k) ==
    RoundDiv(  At(lattice, i + 1, j, k) + At(lattice, i - 1, j, k)
             + At(lattice, i, j + 1, k) + At(lattice, i, j - 1, k)
             + At(lattice, i, j, k + 1) + At(lattice, i, j, k - 1)
             + SourceTerm(lattice, i, j, k), 6)

\* Number of passes through the body of the loop nest
\* for i in 1..xRange-2, for j in 1..yRange-2, for k in 1..zRange-2.
NumInterior ==
    IF xRange >= 3 /\ yRange >= 3 /\ zRange >= 3
    THEN (xRange - 2) * (yRange - 2) * (zRange - 2)
    ELSE 0

\* Mutant of CellAt: the loops start at 0 instead of 1.
CellAtFromZero(n) ==
    [i |-> (n - 1) \div ((yRange - 2) * (zRange - 2)),
     j |-> ((n - 1) \div (zRange - 2)) % (yRange - 2),
     k |-> (n - 1) % (zRange - 2)]

\* Mutant of CellAt: the loop nest with k outermost and i innermost.
CellAtKOutermost(n) ==
    [i |-> 1 + ((n - 1) % (xRange - 2)),
     j |-> 1 + (((n - 1) \div (xRange - 2)) % (yRange - 2)),
     k |-> 1 + ((n - 1) \div ((xRange - 2) * (yRange - 2)))]

\* The cell the n-th pass of the update loops visits: i outermost, k innermost.
CellAt(n) ==
    [i |-> 1 + ((n - 1) \div ((yRange - 2) * (zRange - 2))),
     j |-> 1 + (((n - 1) \div (zRange - 2)) % (yRange - 2)),
     k |-> 1 + ((n - 1) % (zRange - 2))]

\* Mutant of InitCellAt: the loops start at 0 instead of 1.
InitCellAtFromZero(n) ==
    [i |-> (n - 1) % (xRange - 2),
     j |-> ((n - 1) \div (xRange - 2)) % (yRange - 2),
     k |-> (n - 1) \div ((xRange - 2) * (yRange - 2))]

\* The cell the n-th pass of initialise's loops visits: k outermost, i innermost.
InitCellAt(n) ==
    [i |-> 1 + ((n - 1) % (xRange - 2)),
     j |-> 1 + (((n - 1) \div (xRange - 2)) % (yRange - 2)),
     k |-> 1 + ((n - 1) \div ((xRange - 2) * (yRange - 2)))]

\* The n-th sample of uniform_real_distribution(-noise, noise) drawn from an
\* engine seeded with seed: a deterministic sequence in [-noise, noise).
NoiseSample(noise, seed, n) ==
    RoundDiv(2 * noise * ((seed + n * (seed + 1)) % NoiseLevels), NoiseLevels)
    - noise

\* Mutant of InitialisedPotential: the loops run over all of 0..range-1.
InitialisedPotentialEverywhere(lattice, initialValue, noise, seed) ==
    [idx \in DOMAIN lattice.potential |->
        initialValue + NoiseSample(noise, seed, idx + 1)]

\* The potential after initialise(initialValue, noise, generator).
InitialisedPotential(lattice, initialValue, noise, seed) ==
    [idx \in DOMAIN lattice.potential |->
        IF \E n \in 1..NumInterior :
              Index(InitCellAt(n).i, InitCellAt(n).j, InitCellAt(n).k) = idx
        THEN LET n == CHOOSE m \in 1..NumInterior :
                        Index(InitCellAt(m).i, InitCellAt(m).j, InitCellAt(m).k) = idx
             IN  initialValue + NoiseSample(noise, seed, n)
        ELSE lattice.potential[idx]]

\* Mutant of JacobiCell: the stencil is read from the lattice being written.
JacobiCellInPlace(current, updated, c) ==
    LET next == SetAt(updated, c.i, c.j, c.k,
                      nextValueJacobi(updated, c.i, c.j, c.k))
    IN  [lattice |-> next,
         delta   |-> Abs(At(next, c.i, c.j, c.k) - At(current, c.i, c.j, c.k))]

\* One pass of the body of jacobiUpdate's loops at cell c.
JacobiCell(current, updated, c) ==
    LET next == SetAt(updated, c.i, c.j, c.k,
                      nextValueJacobi(current, c.i, c.j, c.k))
    IN  [lattice |-> next,
         delta   |-> Abs(At(next, c.i, c.j, c.k) - At(current, c.i, c.j, c.k))]

\* Mutant of GaussSeidelCell: the change enters the measure with its sign.
GaussSeidelCellSigned(lattice, c) ==
    LET updatedValue == nextValueJacobi(lattice, c.i, c.j, c.k)
        currentValue == At(lattice, c.i, c.j, c.k)
    IN  [lattice |-> SetAt(lattice, c.i, c.j, c.k, updatedValue),
         delta   |-> updatedValue - currentValue]

\* Mutant of GaussSeidelCell: the cell moves only half way to the stencil value.
GaussSeidelCellDamped(lattice, c) ==
    LET updatedValue == RoundDiv(  nextValueJacobi(lattice, c.i, c.j, c.k)
                                 + At(lattice, c.i, c.j, c.k), 2)
        currentValue == At(lattice, c.i, c.j, c.k)
    IN  [lattice |-> SetAt(lattice, c.i, c.j, c.k, updatedValue),
         delta   |-> Abs(updatedValue - currentValue)]

\* One pass of the body of gaussSeidelUpdate's loops at cell c.
GaussSeidelCell(lattice, c) ==
    LET updatedValue == nextValueJacobi(lattice, c.i, c.j, c.k)
        currentValue == At(lattice, c.i, c.j, c.k)
    IN  [lattice |-> SetAt(lattice, c.i, c.j, c.k, updatedValue),
         delta   |-> Abs(updatedValue - currentValue)]

\* Mutant of Relaxed: the two weights are exchanged.
RelaxedSwapped(omega, currentValue, updatedGSValue) ==
      RoundDiv(omega.num * currentValue, omega.den)
    + RoundDiv((omega.den - omega.num) * updatedGSValue, omega.den)

\* Mutant of Relaxed: the relaxation factor is not applied.
RelaxedIgnored(omega, currentValue, updatedGSValue) == updatedGSValue

\* (1-sorParameter) * currentValue + sorParameter * updatedGSValue
Relaxed(omega, currentValue, updatedGSValue) ==
      RoundDiv((omega.den - omega.num) * currentValue, omega.den)
    + RoundDiv(omega.num * updatedGSValue, omega.den)

\* Mutant of SorCell: the measure takes the unrelaxed Gauss-Seidel change.
SorCellUnrelaxedDelta(omega, lattice, c) ==
    LET currentValue    == At(lattice, c.i, c.j, c.k)
        updatedGSValue  == nextValueJacobi(lattice, c.i, c.j, c.k)
        updatedSORValue == Relaxed(omega, currentValue, updatedGSValue)
    IN  [lattice |-> SetAt(lattice, c.i, c.j, c.k, updatedSORValue),
         delta   |-> Abs(updatedGSValue - currentValue)]

\* One pass of the body of sorUpdate's loops at cell c.
SorCell(omega, lattice, c) ==
    LET currentValue    == At(lattice, c.i, c.j, c.k)
        updatedGSValue  == nextValueJacobi(lattice, c.i, c.j, c.k)
        updatedSORValue == Relaxed(omega, currentValue, updatedGSValue)
    IN  [lattice |-> SetAt(lattice, c.i, c.j, c.k, updatedSORValue),
         delta   |-> Abs(updatedSORValue - currentValue)]

\* The coordinates the loops of operator<< visit.
Cells ==
    {[i |-> a, j |-> b, k |-> c] :
        a \in 0..(xRange - 1), b \in 0..(yRange - 1), c \in 0..(zRange - 1)}

\* i==0 || j==0 || k==0 || i==m_xRange-1 || j==m_yRange-1 || k==m_zRange-1
IsBoundary(c) ==
    \/ c.i = 0 \/ c.i = xRange - 1
    \/ c.j = 0 \/ c.j = yRange - 1
    \/ c.k = 0 \/ c.k = zRange - 1

\* The six coordinates the stencil reads around c.
Neighbours(c) ==
    {[c EXCEPT !.i = c.i + 1], [c EXCEPT !.i = c.i - 1],
     [c EXCEPT !.j = c.j + 1], [c EXCEPT !.j = c.j - 1],
     [c EXCEPT !.k = c.k + 1], [c EXCEPT !.k = c.k - 1]}

\* Values a read outside the vector may produce (when it does not crash).
OutsideValues == {0 - Scale, 0, Scale}

\* The values operator()(i,j,k) const may return: the element at the flat index,
\* or, the index being outside the vector, whatever the read produces.
ReadAt(lattice, i, j, k) ==
    IF Index(i, j, k) \in DOMAIN lattice.potential
    THEN {lattice.potential[Index(i, j, k)]}
    ELSE OutsideValues

\* -(above - below)/(2*m_dx)
FieldComponent(above, below) == RoundDiv(0 - (above - below), 2 * spaceStep)

\* The values electricField(i,j,k) may return: one value when all six reads
\* are inside the vector.
electricField(lattice, i, j, k) ==
    {<<FieldComponent(xa, xb), FieldComponent(ya, yb), FieldComponent(za, zb)>> :
        <<xa, xb, ya, yb, za, zb>> \in
            ReadAt(lattice, i + 1, j, k) \X ReadAt(lattice, i - 1, j, k)
         \X ReadAt(lattice, i, j + 1, k) \X ReadAt(lattice, i, j - 1, k)
         \X ReadAt(lattice, i, j, k + 1) \X ReadAt(lattice, i, j, k - 1)}

\* The rows operator<< writes: per cell the potential and the electric field,
\* the zero vector on the boundary shell and electricField(i,j,k) inside.
Serialised(lattice) ==
    [c \in Cells |->
        [potential     |-> At(lattice, c.i, c.j, c.k),
         electricField |-> IF IsBoundary(c)
                           THEN <<0, 0, 0>>
                           ELSE CHOOSE e \in electricField(lattice, c.i, c.j, c.k) :
                                   TRUE]]

\* Every potential of both lattices and the accumulator are within the caps.
InRange ==
    /\ convergenceMeasure <= MeasureCap
    /\ \A idx \in DOMAIN currentLattice.potential :
          Abs(currentLattice.potential[idx]) <= ValueCap
    /\ \A idx \in DOMAIN updatedLattice.potential :
          Abs(updatedLattice.potential[idx]) <= ValueCap

----------------------------------------------------------------------------
(* main                                                                    *)

Methods == {"Jacobi", "GaussSeidel", "SOR"}

\* Relaxation factors tried by the general run.
SorParameters ==
    {[num |-> 0, den |-> 1], [num |-> 1, den |-> 2], [num |-> 1, den |-> 1],
     [num |-> 3, den |-> 2], [num |-> 2, den |-> 1]}

\* The default of the sor-parameter option, left in place by the other methods.
DefaultSorParameter == [num |-> 1, den |-> 1]

\* The relaxation factors a run of method can be started with: the option
\* matters to the SOR branch only.
OmegasFor(method, omegas) ==
    IF method = "SOR" THEN omegas ELSE {DefaultSorParameter}

Precisions == {Scale \div 1000, RoundDiv(Scale, 6), Scale}
InitialValues == {0, Scale}
Noises == {0, Scale \div 2}
SpaceSteps == {1, 2}
Permittivities == {1, 2}

\* The build of the current sources: std::abs is the floating-point overload.
DefaultBuild == [absOverload |-> "double", beyond |-> 0]

Init ==
    /\ pc = "construct"
    /\ xRange = 0 /\ yRange = 0 /\ zRange = 0
    /\ permittivity = 1 /\ spaceStep = 1
    /\ currentLattice = NoLattice
    /\ updatedLattice = NoLattice
    /\ solutionMethod = "Jacobi"
    /\ sorParameter = DefaultSorParameter
    /\ precision = 0
    /\ counter = 0
    /\ convergence = 0
    /\ convergenceMeasure = 0
    /\ cell = 0
    /\ runStart = [current |-> Zeroes(0), updated |-> Zeroes(0)]
    /\ sweepStart = [current |-> Zeroes(0), updated |-> Zeroes(0)]
    /\ written = <<>>
    /\ outputResults = [method \in Methods |-> 0]
    /\ poissonOutput = <<>>
    /\ build = DefaultBuild

\* PoissonLattice currentLattice(xRange, yRange, zRange, permittivity, spaceStep):
\* the vectors are built with xRange*yRange*zRange elements; a negative product
\* converts to a size beyond max_size and the constructor throws.
Construct(x, y, z, perm, dx) ==
    /\ pc = "construct"
    /\ xRange' = x /\ yRange' = y /\ zRange' = z
    /\ permittivity' = perm /\ spaceStep' = dx
    /\ IF x * y * z < 0
       THEN /\ pc' = "failed"
            /\ UNCHANGED currentLattice
       ELSE /\ pc' = "initialise"
            /\ currentLattice' = [potential |-> Zeroes(x * y * z),
                                  chargeDensity |-> Zeroes(x * y * z)]
    /\ UNCHANGED <<updatedLattice, solutionMethod, sorParameter, precision,
                   counter, convergence, convergenceMeasure, cell, runStart,
                   sweepStart, written>>
    /\ UNCHANGED <<outputResults, poissonOutput, build>>

\* currentLattice.initialise(initialValue, noise, generator)
Initialise(initialValue, noise, seed) ==
    /\ pc = "initialise"
    /\ currentLattice' =
          [currentLattice EXCEPT !.potential =
              InitialisedPotential(currentLattice, initialValue, noise, seed)]
    /\ pc' = "setCharge"
    /\ UNCHANGED <<xRange, yRange, zRange, permittivity, spaceStep,
                   updatedLattice, solutionMethod, sorParameter, precision,
                   counter, convergence, convergenceMeasure, cell, runStart,
                   sweepStart, written>>
    /\ UNCHANGED <<outputResults, poissonOutput, build>>

\* Mutant of Centre: the charge is placed at the first interior cell.
CentreCorner == [i |-> 1, j |-> 1, k |-> 1]

\* The centre cell of setPointChargeDist, by integer division.
Centre == [i |-> TruncDiv(xRange, 2), j |-> TruncDiv(yRange, 2),
           k |-> TruncDiv(zRange, 2)]

\* currentLattice.setPointChargeDist().  An index outside the vector is
\* undefined behaviour: the write may crash the program or land outside the
\* lattice's storage, leaving the lattice as it was.
SetPointChargeDist ==
    /\ pc = "setCharge"
    /\ IF Index(Centre.i, Centre.j, Centre.k) \in DOMAIN currentLattice.chargeDensity
       THEN /\ currentLattice' =
                  setChargeDensity(currentLattice, Centre.i, Centre.j, Centre.k, Scale)
            /\ pc' = "copy"
       ELSE /\ UNCHANGED currentLattice
            /\ pc' \in {"copy", "crashed"}
    /\ UNCHANGED <<xRange, yRange, zRange, permittivity, spaceStep,
                   updatedLattice, solutionMethod, sorParameter, precision,
                   counter, convergence, convergenceMeasure, cell, runStart,
                   sweepStart, written>>
    /\ UNCHANGED <<outputResults, poissonOutput, build>>

\* Mutant of CopyLattice: the copy takes the potential but not the charge density.
CopyLatticePotentialOnly ==
    /\ pc = "copy"
    /\ updatedLattice' = [currentLattice EXCEPT
                             !.chargeDensity = Zeroes(xRange * yRange * zRange)]
    /\ counter' = 0
    /\ pc' = "switch"
    /\ UNCHANGED <<xRange, yRange, zRange, permittivity, spaceStep,
                   currentLattice, solutionMethod, sorParameter, precision,
                   convergence, convergenceMeasure, cell, runStart,
                   sweepStart, written>>
    /\ UNCHANGED <<outputResults, poissonOutput, build>>

\* PoissonLattice updatedLattice = currentLattice; int counter = 0;
CopyLattice ==
    /\ pc = "copy"
    /\ updatedLattice' = currentLattice
    /\ counter' = 0
    /\ pc' = "switch"
    /\ UNCHANGED <<xRange, yRange, zRange, permittivity, spaceStep,
                   currentLattice, solutionMethod, sorParameter, precision,
                   convergence, convergenceMeasure, cell, runStart,
                   sweepStart, written>>
    /\ UNCHANGED <<outputResults, poissonOutput, build>>

\* switch(solutionMethod), with the options the command line selected.
StartRun(method, omega, eps) ==
    /\ pc = "switch"
    /\ solutionMethod' = method
    /\ sorParameter' = omega
    /\ precision' = eps
    /\ runStart' = [current |-> currentLattice.potential,
                    updated |-> updatedLattice.potential]
    /\ pc' = "loop"
    /\ UNCHANGED <<xRange, yRange, zRange, permittivity, spaceStep,
                   currentLattice, updatedLattice, counter, convergence,
                   convergenceMeasure, cell, sweepStart, written>>
    /\ UNCHANGED <<outputResults, poissonOutput, build>>

\* while(true) { ++counter; convergence = <update>(...): entry of the update.
BeginSweep(limit) ==
    /\ pc = "loop"
    /\ counter < limit
    /\ counter' = counter + 1
    /\ convergenceMeasure' = 0
    /\ cell' = 1
    /\ sweepStart' = [current |-> currentLattice.potential,
                      updated |-> updatedLattice.potential]
    /\ written' = <<>>
    /\ pc' = "sweep"
    /\ UNCHANGED <<xRange, yRange, zRange, permittivity, spaceStep,
                   currentLattice, updatedLattice, solutionMethod,
                   sorParameter, precision, convergence, runStart>>
    /\ UNCHANGED <<outputResults, poissonOutput, build>>

\* One pass of jacobiUpdate(currentLattice, updatedLattice).
JacobiStep ==
    /\ pc = "sweep"
    /\ solutionMethod = "Jacobi"
    /\ cell <= NumInterior
    /\ InRange
    /\ LET r == JacobiCell(currentLattice, updatedLattice, CellAt(cell))
       IN  /\ updatedLattice' = r.lattice
           /\ convergenceMeasure' = convergenceMeasure + r.delta
    /\ cell' = cell + 1
    /\ written' = Append(written, CellAt(cell))
    /\ UNCHANGED <<pc, xRange, yRange, zRange, permittivity, spaceStep,
                   currentLattice, solutionMethod, sorParameter, precision,
                   counter, convergence, runStart, sweepStart>>
    /\ UNCHANGED <<outputResults, poissonOutput, build>>

\* One pass of gaussSeidelUpdate(currentLattice).
GaussSeidelStep ==
    /\ pc = "sweep"
    /\ solutionMethod = "GaussSeidel"
    /\ cell <= NumInterior
    /\ InRange
    /\ LET r == GaussSeidelCell(currentLattice, CellAt(cell))
       IN  /\ currentLattice' = r.lattice
           /\ convergenceMeasure' = convergenceMeasure + r.delta
    /\ cell' = cell + 1
    /\ written' = Append(written, CellAt(cell))
    /\ UNCHANGED <<pc, xRange, yRange, zRange, permittivity, spaceStep,
                   updatedLattice, solutionMethod, sorParameter, precision,
                   counter, convergence, runStart, sweepStart>>
    /\ UNCHANGED <<outputResults, poissonOutput, build>>

\* One pass of sorUpdate(sorParameter, currentLattice).
SorStep ==
    /\ pc = "sweep"
    /\ solutionMethod = "SOR"
    /\ cell <= NumInterior
    /\ InRange
    /\ LET r == SorCell(sorParameter, currentLattice, CellAt(cell))
       IN  /\ currentLattice' = r.lattice
           /\ convergenceMeasure' = convergenceMeasure + r.delta
    /\ cell' = cell + 1
    /\ written' = Append(written, CellAt(cell))
    /\ UNCHANGED <<pc, xRange, yRange, zRange, permittivity, spaceStep,
                   updatedLattice, solutionMethod, sorParameter, precision,
                   counter, convergence, runStart, sweepStart>>
    /\ UNCHANGED <<outputResults, poissonOutput, build>>

\* The values of the running sweep leave the range the model represents: the
\* program goes on iterating, the model stops following it.
LeaveRange ==
    /\ pc = "sweep"
    /\ cell <= NumInterior
    /\ ~InRange
    /\ pc' = "outOfRange"
    /\ UNCHANGED <<xRange, yRange, zRange, permittivity, spaceStep,
                   currentLattice, updatedLattice, solutionMethod,
                   sorParameter, precision, counter, convergence,
                   convergenceMeasure, cell, runStart, sweepStart, written>>
    /\ UNCHANGED <<outputResults, poissonOutput, build>>

\* Mutant of EndSweep: main does not swap the lattices after jacobiUpdate.
EndSweepNoSwap ==
    /\ pc = "sweep"
    /\ cell > NumInterior
    /\ convergence' = convergenceMeasure
    /\ pc' = "check"
    /\ UNCHANGED <<xRange, yRange, zRange, permittivity, spaceStep,
                   currentLattice, updatedLattice,
                   solutionMethod, sorParameter, precision, counter,
                   convergenceMeasure, cell, runStart, sweepStart, written>>
    /\ UNCHANGED <<outputResults, poissonOutput, build>>

\* Mutant of EndSweep: the update may return before its loops have finished.
EndSweepEarly ==
    /\ pc = "sweep"
    /\ convergence' = convergenceMeasure
    /\ IF solutionMethod = "Jacobi"
       THEN /\ currentLattice' = updatedLattice
            /\ updatedLattice' = currentLattice
       ELSE UNCHANGED <<currentLattice, updatedLattice>>
    /\ pc' = "check"
    /\ UNCHANGED <<xRange, yRange, zRange, permittivity, spaceStep,
                   solutionMethod, sorParameter, precision, counter,
                   convergenceMeasure, cell, runStart, sweepStart, written>>
    /\ UNCHANGED <<outputResults, poissonOutput, build>>

\* The update returns convergenceMeasure; for Jacobi main then swaps the lattices.
EndSweep ==
    /\ pc = "sweep"
    /\ cell > NumInterior
    /\ convergence' = convergenceMeasure
    /\ IF solutionMethod = "Jacobi"
       THEN /\ currentLattice' = updatedLattice
            /\ updatedLattice' = currentLattice
       ELSE UNCHANGED <<currentLattice, updatedLattice>>
    /\ pc' = "check"
    /\ UNCHANGED <<xRange, yRange, zRange, permittivity, spaceStep,
                   solutionMethod, sorParameter, precision, counter,
                   convergenceMeasure, cell, runStart, sweepStart, written>>
    /\ UNCHANGED <<outputResults, poissonOutput, build>>

\* Mutant of Check: the loop also stops on a measure equal to precision.
CheckInclusive ==
    /\ pc = "check"
    /\ pc' = IF convergence <= precision THEN "converged" ELSE "loop"
    /\ UNCHANGED <<xRange, yRange, zRange, permittivity, spaceStep,
                   currentLattice, updatedLattice, solutionMethod,
                   sorParameter, precision, counter, convergence,
                   convergenceMeasure, cell, runStart, sweepStart, written>>
    /\ UNCHANGED <<outputResults, poissonOutput, build>>

\* if(convergence < precision) break;
Check ==
    /\ pc = "check"
    /\ pc' = IF convergence < precision THEN "converged" ELSE "loop"
    /\ UNCHANGED <<xRange, yRange, zRange, permittivity, spaceStep,
                   currentLattice, updatedLattice, solutionMethod,
                   sorParameter, precision, counter, convergence,
                   convergenceMeasure, cell, runStart, sweepStart, written>>
    /\ UNCHANGED <<outputResults, poissonOutput, build>>

\* poissonOutput << currentLattice; outputResults << counter; return 0;
Output ==
    /\ pc = "converged"
    /\ pc' = "done"
    /\ poissonOutput' = Serialised(currentLattice)
    /\ outputResults' = [outputResults EXCEPT ![solutionMethod] = counter]
    /\ UNCHANGED build
    /\ UNCHANGED <<xRange, yRange, zRange, permittivity, spaceStep,
                   currentLattice, updatedLattice, solutionMethod,
                   sorParameter, precision, counter, convergence,
                   convergenceMeasure, cell, runStart, sweepStart, written>>

Next ==
    \/ \E x \in DimValues, y \in DimValues, z \in DimValues,
          perm \in Permittivities, dx \in SpaceSteps :
          Construct(x, y, z, perm, dx)
    \/ \E initialValue \in InitialValues, noise \in Noises, seed \in 0..MaxSeed :
          Initialise(initialValue, noise, seed)
    \/ SetPointChargeDist
    \/ CopyLattice
    \/ \E method \in Methods, eps \in Precisions :
          \E omega \in OmegasFor(method, SorParameters) :
             StartRun(method, omega, eps)
    \/ BeginSweep(MaxSweeps)
    \/ JacobiStep
    \/ GaussSeidelStep
    \/ SorStep
    \/ LeaveRange
    \/ EndSweep
    \/ Check
    \/ Output

Spec == Init /\ [][Next]_vars

----------------------------------------------------------------------------
(* The update operations on lattices written through operator() and        *)
(* setChargeDensity: any potential on the boundary and in the interior,    *)
(* any charge density, two distinct lattices for Jacobi.                   *)

\* The n-th value of field pattern s, between -Scale and Scale.
PatternValue(s, n) ==
    ((((s + 1) * n * n + s * n + s) % 5) - 2) * (Scale \div 2)

PatternLattice(s, size) ==
    [potential     |-> [idx \in 0..(size - 1) |-> PatternValue(s, idx)],
     chargeDensity |-> [idx \in 0..(size - 1) |->
                           IF s = 0 THEN 0 ELSE PatternValue(s + 1, idx + 1)]]

\* Relaxation factors tried on these lattices: below 0, inside and above 2.
OpsSorParameters ==
    SorParameters \cup {[num |-> 0 - 1, den |-> 2], [num |-> 5, den |-> 2]}

InitOps ==
    /\ pc = "loop"
    /\ xRange \in 3..MaxDim /\ yRange \in 3..MaxDim /\ zRange \in 3..MaxDim
    /\ permittivity \in Permittivities /\ spaceStep \in SpaceSteps
    /\ \E s \in 0..MaxPattern :
          /\ currentLattice = PatternLattice(s, LatticeSize)
          /\ updatedLattice =
                [PatternLattice(s + 1, LatticeSize) EXCEPT
                    !.chargeDensity = currentLattice.chargeDensity]
    /\ solutionMethod \in Methods
    /\ sorParameter \in OmegasFor(solutionMethod, OpsSorParameters)
    /\ precision \in Precisions
    /\ counter = 0
    /\ convergence = 0
    /\ convergenceMeasure = 0
    /\ cell = 0
    /\ runStart = [current |-> currentLattice.potential,
                   updated |-> updatedLattice.potential]
    /\ sweepStart = runStart
    /\ written = <<>>
    /\ outputResults = [method \in Methods |-> 0]
    /\ poissonOutput = <<>>
    /\ build = DefaultBuild

NextOps ==
    \/ BeginSweep(MaxSweeps)
    \/ JacobiStep
    \/ GaussSeidelStep
    \/ SorStep
    \/ LeaveRange
    \/ EndSweep
    \/ Check
    \/ Output

SpecOps == InitOps /\ [][NextOps]_vars

----------------------------------------------------------------------------
(* gaussSeidelUpdate on a lattice L beside sorUpdate with omega = 1 on a   *)
(* copy of L, sweep for sweep.  Here currentLattice is L and               *)
(* convergenceMeasure the accumulator of gaussSeidelUpdate; updatedLattice *)
(* is the copy and convergence the accumulator of sorUpdate.               *)

InitCompare ==
    /\ pc = "loop"
    /\ xRange \in 3..MaxDim /\ yRange \in 3..MaxDim /\ zRange \in 3..MaxDim
    /\ permittivity \in Permittivities /\ spaceStep \in SpaceSteps
    /\ \E s \in 0..MaxPattern : currentLattice = PatternLattice(s, LatticeSize)
    /\ updatedLattice = currentLattice
    /\ solutionMethod = "GaussSeidel"
    /\ sorParameter = [num |-> 1, den |-> 1]
    /\ precision = 0
    /\ counter = 0
    /\ convergence = 0
    /\ convergenceMeasure = 0
    /\ cell = 0
    /\ runStart = [current |-> currentLattice.potential,
                   updated |-> updatedLattice.potential]
    /\ sweepStart = runStart
    /\ written = <<>>
    /\ outputResults = [method \in Methods |-> 0]
    /\ poissonOutput = <<>>
    /\ build = DefaultBuild

\* Entry of both updates.
CompareBegin ==
    /\ pc = "loop"
    /\ counter < MaxSweeps
    /\ counter' = counter + 1
    /\ convergenceMeasure' = 0
    /\ convergence' = 0
    /\ cell' = 1
    /\ sweepStart' = [current |-> currentLattice.potential,
                      updated |-> updatedLattice.potential]
    /\ written' = <<>>
    /\ pc' = "sweep"
    /\ UNCHANGED <<xRange, yRange, zRange, permittivity, spaceStep,
                   currentLattice, updatedLattice, solutionMethod,
                   sorParameter, precision, runStart>>
    /\ UNCHANGED <<outputResults, poissonOutput, build>>

\* One pass of gaussSeidelUpdate on L and of sorUpdate on the copy.
CompareStep ==
    /\ pc = "sweep"
    /\ cell <= NumInterior
    /\ InRange
    /\ convergence <= MeasureCap
    /\ LET g == GaussSeidelCell(currentLattice, CellAt(cell))
           r == SorCell(sorParameter, updatedLattice, CellAt(cell))
       IN  /\ currentLattice' = g.lattice
           /\ convergenceMeasure' = convergenceMeasure + g.delta
           /\ updatedLattice' = r.lattice
           /\ convergence' = convergence + r.delta
    /\ cell' = cell + 1
    /\ written' = Append(written, CellAt(cell))
    /\ UNCHANGED <<pc, xRange, yRange, zRange, permittivity, spaceStep,
                   solutionMethod, sorParameter, precision, counter,
                   runStart, sweepStart>>
    /\ UNCHANGED <<outputResults, poissonOutput, build>>

\* Both updates return.
CompareEnd ==
    /\ pc = "sweep"
    /\ cell > NumInterior
    /\ pc' = "loop"
    /\ UNCHANGED <<xRange, yRange, zRange, permittivity, spaceStep,
                   currentLattice, updatedLattice, solutionMethod,
                   sorParameter, precision, counter, convergence,
                   convergenceMeasure, cell, runStart, sweepStart, written>>
    /\ UNCHANGED <<outputResults, poissonOutput, build>>

NextCompare ==
    \/ CompareBegin
    \/ CompareStep
    \/ CompareEnd

SpecCompare == InitCompare /\ [][NextCompare]_vars

----------------------------------------------------------------------------
(* The end-to-end run on the 5x5x5 point-charge configuration:             *)
(* permittivity 1, dx 1, zero noise, zero initial value, precision 1e-6.   *)

PointPrecision == Scale \div (10^6)

\* Relaxation factors tried on the point-charge configuration.
PointSorParameters ==
    {[num |-> 0 - 1, den |-> 1], [num |-> 0 - 1, den |-> 2],
     [num |-> 0, den |-> 1], [num |-> 1, den |-> 1], [num |-> 3, den |-> 2],
     [num |-> 2, den |-> 1], [num |-> 5, den |-> 2], [num |-> 3, den |-> 1]}

NextPoint ==
    \/ Construct(5, 5, 5, 1, 1)
    \/ Initialise(0, 0, 0)
    \/ SetPointChargeDist
    \/ CopyLattice
    \/ \E method \in Methods :
          \E omega \in OmegasFor(method, PointSorParameters) :
             StartRun(method, omega, PointPrecision)
    \/ BeginSweep(IterationBound)
    \/ JacobiStep
    \/ GaussSeidelStep
    \/ SorStep
    \/ LeaveRange
    \/ EndSweep
    \/ Check
    \/ Output

SpecPoint == Init /\ [][NextPoint]_vars

\* main is a sequential program: whenever it can take a step it takes one.
SpecPointFair == SpecPoint /\ WF_vars(NextPoint)

----------------------------------------------------------------------------
(* The program executed repeatedly on the 5x5x5 point-charge configuration, *)
(* each execution with the method its command line selects, all of them     *)
(* reporting their number of iterations to the same results file.           *)

\* Relaxation factors tried by the repeated executions.
RunsSorParameters == {[num |-> 1, den |-> 1], [num |-> 3, den |-> 1]}

\* The program has returned and is executed again: main starts afresh, the
\* results reported so far remain.
RunAgain ==
    /\ pc = "done"
    /\ pc' = "construct"
    /\ xRange' = 0 /\ yRange' = 0 /\ zRange' = 0
    /\ permittivity' = 1 /\ spaceStep' = 1
    /\ currentLattice' = NoLattice
    /\ updatedLattice' = NoLattice
    /\ solutionMethod' = "Jacobi"
    /\ sorParameter' = DefaultSorParameter
    /\ precision' = 0
    /\ counter' = 0
    /\ convergence' = 0
    /\ convergenceMeasure' = 0
    /\ cell' = 0
    /\ runStart' = [current |-> Zeroes(0), updated |-> Zeroes(0)]
    /\ sweepStart' = [current |-> Zeroes(0), updated |-> Zeroes(0)]
    /\ written' = <<>>
    /\ poissonOutput' = <<>>
    /\ UNCHANGED <<outputResults, build>>

NextRuns ==
    \/ Construct(5, 5, 5, 1, 1)
    \/ Initialise(0, 0, 0)
    \/ SetPointChargeDist
    \/ CopyLattice
    \/ \E method \in Methods :
          \E omega \in OmegasFor(method, RunsSorParameters) :
             StartRun(method, omega, PointPrecision)
    \/ BeginSweep(IterationBound)
    \/ JacobiStep
    \/ GaussSeidelStep
    \/ SorStep
    \/ LeaveRange
    \/ EndSweep
    \/ Check
    \/ Output
    \/ RunAgain

SpecRuns == Init /\ [][NextRuns]_vars

----------------------------------------------------------------------------
(* The halo variant of PoissonLattice: the potential has                   *)
(* (xRange+1)*(yRange+1)*(zRange+1) elements, operator() adds 1 to each    *)
(* index, and initialise and the updates loop over all of 0..range-1.      *)
(* It runs under the same driving loop of main.                            *)

\* Sweeps a run of the halo variant may start.
HaloSweeps == 2

\* Builds tried: an unqualified abs(double) resolves to the floating-point
\* overload or to int abs(int); memory beyond the vector reads as 0 or as 1.
HaloBuilds ==
    {[absOverload |-> a, beyond |-> b] : a \in {"double", "int"}, b \in {0, Scale}}

\* Relaxation factor tried by the SOR run of the halo variant.
HaloSorParameters == {[num |-> 3, den |-> 2]}

\* The flat index operator() of the halo variant gives coordinate (i,j,k).
HaloIndex(i, j, k) == (i + 1) + (j + 1) * xRange + (k + 1) * xRange * yRange

\* Size of m_potential in the halo variant.
HaloSize == (xRange + 1) * (yRange + 1) * (zRange + 1)

\* operator()(i,j,k) const of the halo variant; beyond the vector the read is
\* undefined and yields what the memory there holds.
HaloAt(lattice, i, j, k) ==
    IF HaloIndex(i, j, k) \in DOMAIN lattice.potential
    THEN lattice.potential[HaloIndex(i, j, k)]
    ELSE build.beyond

\* operator()(i,j,k) = value of the halo variant.
HaloSetAt(lattice, i, j, k, value) ==
    [lattice EXCEPT !.potential[HaloIndex(i, j, k)] = value]

\* The stencil at c reads beyond the end of the halo variant's vector.
HaloReadsBeyond(lattice, c) ==
    \E n \in Neighbours(c) : HaloIndex(n.i, n.j, n.k) \notin DOMAIN lattice.potential

\* nextValueJacobi of the halo variant.
HaloNextValueJacobi(lattice, i, j, k) ==
    RoundDiv(  HaloAt(lattice, i + 1, j, k) + HaloAt(lattice, i - 1, j, k)
             + HaloAt(lattice, i, j + 1, k) + HaloAt(lattice, i, j - 1, k)
             + HaloAt(lattice, i, j, k + 1) + HaloAt(lattice, i, j, k - 1)
             + SourceTerm(lattice, i, j, k), 6)

\* abs(v) as the halo variant writes it, without std::  With the int overload
\* the argument is converted to int, truncating toward zero.
HaloAbs(v) ==
    IF build.absOverload = "int" THEN (Abs(v) \div Scale) * Scale ELSE Abs(v)

\* Number of passes through the body of the loop nest
\* for i in 0..xRange-1, for j in 0..yRange-1, for k in 0..zRange-1.
HaloNumCells ==
    IF xRange >= 1 /\ yRange >= 1 /\ zRange >= 1
    THEN xRange * yRange * zRange
    ELSE 0

\* The cell the n-th pass of the halo variant's update loops visits.
HaloCellAt(n) ==
    [i |-> (n - 1) \div (yRange * zRange),
     j |-> ((n - 1) \div zRange) % yRange,
     k |-> (n - 1) % zRange]

\* The potential after initialise of the halo variant: every cell of
\* 0..range-1 is written, in the order k outermost, i innermost.
HaloInitialisedPotential(lattice, initialValue, noise, seed) ==
    [idx \in DOMAIN lattice.potential |->
        IF \E c \in Cells : HaloIndex(c.i, c.j, c.k) = idx
        THEN LET c == CHOOSE d \in Cells : HaloIndex(d.i, d.j, d.k) = idx
             IN  initialValue + NoiseSample(noise, seed, Index(c.i, c.j, c.k) + 1)
        ELSE lattice.potential[idx]]

\* One pass of the body of the halo variant's jacobiUpdate loops at cell c.
HaloJacobiCell(current, updated, c) ==
    LET next == HaloSetAt(updated, c.i, c.j, c.k,
                          HaloNextValueJacobi(current, c.i, c.j, c.k))
    IN  [lattice |-> next,
         delta   |-> HaloAbs(HaloAt(next, c.i, c.j, c.k) - HaloAt(current, c.i, c.j, c.k))]

\* One pass of the body of the halo variant's gaussSeidelUpdate loops at cell c.
HaloGaussSeidelCell(lattice, c) ==
    LET updatedValue == HaloNextValueJacobi(lattice, c.i, c.j, c.k)
        currentValue == HaloAt(lattice, c.i, c.j, c.k)
    IN  [lattice |-> HaloSetAt(lattice, c.i, c.j, c.k, updatedValue),
         delta   |-> HaloAbs(updatedValue - currentValue)]

\* One pass of the body of the halo variant's sorUpdate loops at cell c.
HaloSorCell(omega, lattice, c) ==
    LET currentValue    == HaloAt(lattice, c.i, c.j, c.k)
        updatedGSValue  == HaloNextValueJacobi(lattice, c.i, c.j, c.k)
        updatedSORValue == Relaxed(omega, currentValue, updatedGSValue)
    IN  [lattice |-> HaloSetAt(lattice, c.i, c.j, c.k, updatedSORValue),
         delta   |-> HaloAbs(updatedSORValue - currentValue)]

InitHalo ==
    /\ pc = "construct"
    /\ xRange = 0 /\ yRange = 0 /\ zRange = 0
    /\ permittivity = 1 /\ spaceStep = 1
    /\ currentLattice = NoLattice
    /\ updatedLattice = NoLattice
    /\ solutionMethod = "Jacobi"
    /\ sorParameter = DefaultSorParameter
    /\ precision = 0
    /\ counter = 0
    /\ convergence = 0
    /\ convergenceMeasure = 0
    /\ cell = 0
    /\ runStart = [current |-> Zeroes(0), updated |-> Zeroes(0)]
    /\ sweepStart = [current |-> Zeroes(0), updated |-> Zeroes(0)]
    /\ written = <<>>
    /\ outputResults = [method \in Methods |-> 0]
    /\ poissonOutput = <<>>
    /\ build \in HaloBuilds

\* The constructor of the halo variant (positive ranges).
HaloConstruct(x, y, z, perm, dx) ==
    /\ pc = "construct"
    /\ xRange' = x /\ yRange' = y /\ zRange' = z
    /\ permittivity' = perm /\ spaceStep' = dx
    /\ currentLattice' = [potential |-> Zeroes((x + 1) * (y + 1) * (z + 1)),
                          chargeDensity |-> Zeroes(x * y * z)]
    /\ pc' = "initialise"
    /\ UNCHANGED <<updatedLattice, solutionMethod, sorParameter, precision,
                   counter, convergence, convergenceMeasure, cell, runStart,
                   sweepStart, written>>
    /\ UNCHANGED <<outputResults, poissonOutput, build>>

\* initialise(initialValue, noise, generator) of the halo variant.
HaloInitialise(initialValue, noise, seed) ==
    /\ pc = "initialise"
    /\ currentLattice' =
          [currentLattice EXCEPT !.potential =
              HaloInitialisedPotential(currentLattice, initialValue, noise, seed)]
    /\ pc' = "setCharge"
    /\ UNCHANGED <<xRange, yRange, zRange, permittivity, spaceStep,
                   updatedLattice, solutionMethod, sorParameter, precision,
                   counter, convergence, convergenceMeasure, cell, runStart,
                   sweepStart, written>>
    /\ UNCHANGED <<outputResults, poissonOutput, build>>

\* One pass of the halo variant's jacobiUpdate(currentLattice, updatedLattice).
HaloJacobiStep ==
    /\ pc = "sweep"
    /\ solutionMethod = "Jacobi"
    /\ cell <= HaloNumCells
    /\ InRange
    /\ LET r == HaloJacobiCell(currentLattice, updatedLattice, HaloCellAt(cell))
       IN  /\ updatedLattice' = r.lattice
           /\ convergenceMeasure' = convergenceMeasure + r.delta
    /\ cell' = cell + 1
    /\ written' = Append(written, HaloCellAt(cell))
    /\ UNCHANGED <<pc, xRange, yRange, zRange, permittivity, spaceStep,
                   currentLattice, solutionMethod, sorParameter, precision,
                   counter, convergence, runStart, sweepStart>>
    /\ UNCHANGED <<outputResults, poissonOutput, build>>

\* One pass of the halo variant's gaussSeidelUpdate(currentLattice).
HaloGaussSeidelStep ==
    /\ pc = "sweep"
    /\ solutionMethod = "GaussSeidel"
    /\ cell <= HaloNumCells
    /\ InRange
    /\ LET r == HaloGaussSeidelCell(currentLattice, HaloCellAt(cell))
       IN  /\ currentLattice' = r.lattice
           /\ convergenceMeasure' = convergenceMeasure + r.delta
    /\ cell' = cell + 1
    /\ written' = Append(written, HaloCellAt(cell))
    /\ UNCHANGED <<pc, xRange, yRange, zRange, permittivity, spaceStep,
                   updatedLattice, solutionMethod, sorParameter, precision,
                   counter, convergence, runStart, sweepStart>>
    /\ UNCHANGED <<outputResults, poissonOutput, build>>

\* One pass of the halo variant's sorUpdate(sorParameter, currentLattice).
HaloSorStep ==
    /\ pc = "sweep"
    /\ solutionMethod = "SOR"
    /\ cell <= HaloNumCells
    /\ InRange
    /\ LET r == HaloSorCell(sorParameter, currentLattice, HaloCellAt(cell))
       IN  /\ currentLattice' = r.lattice
           /\ convergenceMeasure' = convergenceMeasure + r.delta
    /\ cell' = cell + 1
    /\ written' = Append(written, HaloCellAt(cell))
    /\ UNCHANGED <<pc, xRange, yRange, zRange, permittivity, spaceStep,
                   updatedLattice, solutionMethod, sorParameter, precision,
                   counter, convergence, runStart, sweepStart>>
    /\ UNCHANGED <<outputResults, poissonOutput, build>>

\* The stencil of the next pass reads beyond the end of the vector, which is
\* undefined: instead of yielding a value the read may end the program.
HaloCrash ==
    /\ pc = "sweep"
    /\ cell <= HaloNumCells
    /\ HaloReadsBeyond(currentLattice, HaloCellAt(cell))
    /\ pc' = "crashed"
    /\ UNCHANGED <<xRange, yRange, zRange, permittivity, spaceStep,
                   currentLattice, updatedLattice, solutionMethod,
                   sorParameter, precision, counter, convergence,
                   convergenceMeasure, cell, runStart, sweepStart, written>>
    /\ UNCHANGED <<outputResults, poissonOutput, build>>

\* The values of the running sweep leave the range the model represents.
HaloLeaveRange ==
    /\ pc = "sweep"
    /\ cell <= HaloNumCells
    /\ ~InRange
    /\ pc' = "outOfRange"
    /\ UNCHANGED <<xRange, yRange, zRange, permittivity, spaceStep,
                   currentLattice, updatedLattice, solutionMethod,
                   sorParameter, precision, counter, convergence,
                   convergenceMeasure, cell, runStart, sweepStart, written>>
    /\ UNCHANGED <<outputResults, poissonOutput, build>>

\* The update of the halo variant returns; for Jacobi main swaps the lattices.
HaloEndSweep ==
    /\ pc = "sweep"
    /\ cell > HaloNumCells
    /\ convergence' = convergenceMeasure
    /\ IF solutionMethod = "Jacobi"
       THEN /\ currentLattice' = updatedLattice
            /\ updatedLattice' = currentLattice
       ELSE UNCHANGED <<currentLattice, updatedLattice>>
    /\ pc' = "check"
    /\ UNCHANGED <<xRange, yRange, zRange, permittivity, spaceStep,
                   solutionMethod, sorParameter, precision, counter,
                   convergenceMeasure, cell, runStart, sweepStart, written>>
    /\ UNCHANGED <<outputResults, poissonOutput, build>>

NextHalo ==
    \/ \E x \in 1..MaxDim, y \in 1..MaxDim, z \in 1..MaxDim :
          HaloConstruct(x, y, z, 1, 1)
    \/ \E initialValue \in InitialValues : HaloInitialise(initialValue, 0, 0)
    \/ SetPointChargeDist
    \/ CopyLattice
    \/ \E method \in Methods :
          \E omega \in OmegasFor(method, HaloSorParameters) :
             StartRun(method, omega, PointPrecision)
    \/ BeginSweep(HaloSweeps)
    \/ HaloJacobiStep
    \/ HaloGaussSeidelStep
    \/ HaloSorStep
    \/ HaloCrash
    \/ HaloLeaveRange
    \/ HaloEndSweep
    \/ Check

SpecHalo == InitHalo /\ [][NextHalo]_vars

----------------------------------------------------------------------------
(* Properties.                                                             *)

\* The flat index the data model gives a coordinate.
Flat(c) == c.i + c.j * xRange + c.k * xRange * yRange

InteriorCells == {c \in Cells : ~IsBoundary(c)}

\* Lexicographic order on coordinates, i most significant and k least.
LexLess(a, b) ==
    \/ a.i < b.i
    \/ a.i = b.i /\ a.j < b.j
    \/ a.i = b.i /\ a.j = b.j /\ a.k < b.k

RECURSIVE SumOver(_, _)
\* The sum of term[c] over the cells c of set.
SumOver(set, term) ==
    IF set = {} THEN 0
    ELSE LET c == CHOOSE x \in set : TRUE
         IN  term[c] + SumOver(set \ {c}, term)

\* The number of std::swap(currentLattice, updatedLattice) the run has done.
Swaps ==
    IF solutionMethod = "Jacobi"
    THEN IF pc \in {"sweep", "outOfRange"} THEN counter - 1 ELSE counter
    ELSE 0

\* The potential of the lattice that entered the loop as currentLattice, and
\* of the one that entered it as updatedLattice.
FirstField ==
    IF Swaps % 2 = 0 THEN currentLattice.potential ELSE updatedLattice.potential
SecondField ==
    IF Swaps % 2 = 0 THEN updatedLattice.potential ELSE currentLattice.potential

InLoop == pc \in {"loop", "sweep", "check", "outOfRange", "converged", "done"}

\* The 6-point stencil of the data model on explicit fields: below gives the
\* neighbours at i-1, j-1, k-1 and above those at i+1, j+1, k+1.
StencilOf(below, above, density, c) ==
    RoundDiv(  above[Flat(c) + 1] + below[Flat(c) - 1]
             + above[Flat(c) + xRange] + below[Flat(c) - xRange]
             + above[Flat(c) + xRange * yRange] + below[Flat(c) - xRange * yRange]
             + RoundDiv(spaceStep * spaceStep * density[Flat(c)], permittivity),
             6)

\* C1: after any number of sweeps of jacobiUpdate, gaussSeidelUpdate or
\* sorUpdate, every boundary cell of every lattice involved holds the potential
\* it held before the first sweep.
C1_BoundaryUnchanged ==
    InLoop =>
        \A c \in Cells :
            IsBoundary(c) =>
                /\ FirstField[Flat(c)] = runStart.current[Flat(c)]
                /\ SecondField[Flat(c)] = runStart.updated[Flat(c)]

\* Two sweeps have completed on a lattice with a non-zero boundary cell, and
\* an interior cell has changed.
C1_Witness ==
    /\ pc = "check"
    /\ counter >= 2
    /\ \E c \in Cells : IsBoundary(c) /\ currentLattice.potential[Flat(c)] # 0
    /\ \E c \in InteriorCells : FirstField[Flat(c)] # runStart.current[Flat(c)]

\* C2: in every state of a run, from construction through initialise,
\* setPointChargeDist, the sweeps and the Jacobi swaps, every boundary cell of
\* currentLattice and of updatedLattice holds potential exactly 0.
C2_BoundaryZero ==
    /\ pc \in {"initialise", "setCharge", "copy", "switch"} \/ InLoop =>
          \A c \in Cells :
              IsBoundary(c) => currentLattice.potential[Flat(c)] = 0
    /\ pc = "switch" \/ InLoop =>
          \A c \in Cells :
              IsBoundary(c) => updatedLattice.potential[Flat(c)] = 0

\* A Jacobi run has swapped the buffers twice and both hold a non-zero
\* interior potential.
C2_Witness ==
    /\ pc = "check"
    /\ solutionMethod = "Jacobi"
    /\ counter >= 2
    /\ \E c \in InteriorCells : currentLattice.potential[Flat(c)] # 0
    /\ \E c \in InteriorCells : updatedLattice.potential[Flat(c)] # 0

\* C3: the driving loop leaves the iterating state exactly when the measure of
\* the sweep just completed is strictly less than precision (an equal measure
\* keeps iterating); there is no other exit, and once converged no sweep runs
\* and the lattice is not mutated again.
C3_LoopExit ==
    [][ /\ pc = "check" /\ convergence < precision => pc' = "converged"
        /\ pc = "check" /\ convergence >= precision => pc' = "loop"
        /\ pc' = "converged" /\ pc # "converged" =>
              pc = "check" /\ convergence < precision
                           /\ convergence = convergenceMeasure
                           /\ cell > NumInterior
        /\ pc \in {"loop", "sweep", "check"} =>
              pc' \in {"loop", "sweep", "check", "converged", "outOfRange"}
        /\ pc \in {"converged", "done"} =>
              /\ pc' \in {"converged", "done"}
              /\ currentLattice' = currentLattice
              /\ updatedLattice' = updatedLattice
              /\ counter' = counter
      ]_vars

\* The loop went on iterating after a sweep whose measure equals precision.
C3_Witness ==
    /\ pc = "loop"
    /\ counter >= 1
    /\ convergence = precision
    /\ precision > 0

\* C4: after jacobiUpdate(source, dest) on two distinct lattices, every
\* interior cell of dest holds (sum of the six neighbours of source +
\* dx^2/permittivity * chargeDensity) / 6 computed on source as it was before
\* the call, and the potential of source is unchanged.
C4_JacobiStencil ==
    pc = "sweep" /\ solutionMethod = "Jacobi" =>
        /\ currentLattice.potential = sweepStart.current
        /\ \A n \in 1..(cell - 1) :
              \E c \in InteriorCells :
                 /\ c = written[n]
                 /\ updatedLattice.potential[Flat(c)] =
                       StencilOf(sweepStart.current, sweepStart.current,
                                 currentLattice.chargeDensity, c)
        /\ cell > NumInterior =>
              {written[n] : n \in 1..Len(written)} = InteriorCells

\* A Jacobi sweep over at least two interior cells has written all of them,
\* from a source that differs from the destination and carries charge.
C4_Witness ==
    /\ pc = "sweep"
    /\ solutionMethod = "Jacobi"
    /\ NumInterior >= 2
    /\ cell > NumInterior
    /\ sweepStart.current # sweepStart.updated
    /\ \E c \in InteriorCells : currentLattice.chargeDensity[Flat(c)] # 0
    /\ \E c \in InteriorCells :
          updatedLattice.potential[Flat(c)] # sweepStart.updated[Flat(c)]

\* C5: gaussSeidelUpdate visits the interior cells in ascending order, i
\* outermost and k innermost, and the value written at (i,j,k) is the stencil
\* of the lattice at that moment: the neighbours (i-1,j,k), (i,j-1,k),
\* (i,j,k-1) with their values of this sweep, the neighbours (i+1,j,k),
\* (i,j+1,k), (i,j,k+1) with their values from before the sweep.
C5_GaussSeidelOrder ==
    pc = "sweep" /\ solutionMethod = "GaussSeidel" =>
        /\ Len(written) = cell - 1
        /\ \A n \in 1..Len(written) :
              /\ written[n] \in InteriorCells
              /\ \A m \in 1..(n - 1) : LexLess(written[m], written[n])
        /\ \A c \in InteriorCells :
              IF \E n \in 1..Len(written) : written[n] = c
              THEN currentLattice.potential[Flat(c)] =
                      StencilOf(currentLattice.potential, sweepStart.current,
                                currentLattice.chargeDensity, c)
              ELSE /\ currentLattice.potential[Flat(c)] = sweepStart.current[Flat(c)]
                   /\ \A n \in 1..Len(written) : LexLess(written[n], c)
        /\ cell > NumInterior =>
              {written[n] : n \in 1..Len(written)} = InteriorCells

\* A Gauss-Seidel sweep has written a cell whose lower neighbour along each
\* axis is an interior cell that this sweep changed.
C5_Witness ==
    /\ pc = "sweep"
    /\ solutionMethod = "GaussSeidel"
    /\ cell > NumInterior
    /\ \E c \in InteriorCells :
          /\ c.i >= 2 /\ c.j >= 2 /\ c.k >= 2
          /\ currentLattice.potential[Flat(c) - 1] # sweepStart.current[Flat(c) - 1]
          /\ currentLattice.potential[Flat(c) - xRange]
                # sweepStart.current[Flat(c) - xRange]
          /\ currentLattice.potential[Flat(c) - xRange * yRange]
                # sweepStart.current[Flat(c) - xRange * yRange]

\* C6: N sweeps of sorUpdate with omega = 1 on a copy of L and N sweeps of
\* gaussSeidelUpdate on L give the same potential at every cell after each
\* sweep, and the same convergence measure for each sweep.
C6_SorOneIsGaussSeidel ==
    /\ updatedLattice.potential = currentLattice.potential
    /\ convergence = convergenceMeasure

\* Two sweeps of both updates have completed, and they changed the lattice.
C6_Witness ==
    /\ pc = "loop"
    /\ counter >= 2
    /\ sorParameter.num = sorParameter.den
    /\ convergenceMeasure > 0
    /\ currentLattice.potential # runStart.current
    /\ currentLattice.potential # sweepStart.current

\* The value a cell written by the running sweep holds, and the value the
\* update subtracts from it: the cell's own previous value for Gauss-Seidel
\* and SOR, the value of the source lattice at that cell for Jacobi.
WrittenValue(c) ==
    IF solutionMethod = "Jacobi"
    THEN updatedLattice.potential[Flat(c)]
    ELSE currentLattice.potential[Flat(c)]

WrittenCells == {written[n] : n \in 1..Len(written)}

\* C7 as amended: the value an update returns is the sum, over all interior
\* cells and only them, of |value written - previous value|, where the previous
\* value is the one the cell held before being written for gaussSeidelUpdate
\* and sorUpdate, and the value of the source lattice at that cell for
\* jacobiUpdate; the value sorUpdate writes and measures is the relaxed value
\* (1-omega)*current + omega*stencil.
C7_MeasureIsL1Change ==
    pc = "sweep" =>
        /\ convergenceMeasure =
              SumOver(WrittenCells,
                      [c \in WrittenCells |->
                          Abs(WrittenValue(c) - sweepStart.current[Flat(c)])])
        /\ cell > NumInterior => WrittenCells = InteriorCells
        /\ WrittenCells \subseteq InteriorCells
        /\ solutionMethod = "SOR" =>
              \A c \in WrittenCells :
                 currentLattice.potential[Flat(c)] =
                      RoundDiv((sorParameter.den - sorParameter.num)
                                  * sweepStart.current[Flat(c)], sorParameter.den)
                    + RoundDiv(sorParameter.num
                                  * StencilOf(currentLattice.potential,
                                              sweepStart.current,
                                              currentLattice.chargeDensity, c),
                               sorParameter.den)

\* A second Jacobi sweep has completed whose destination held, before the
\* sweep, values other than the source's.
C7_Witness ==
    /\ pc = "sweep"
    /\ solutionMethod = "Jacobi"
    /\ cell > NumInterior
    /\ NumInterior >= 2
    /\ convergenceMeasure > 0
    /\ \E c \in InteriorCells :
          sweepStart.updated[Flat(c)] # sweepStart.current[Flat(c)]

\* C7 as stated: the value an update returns is the sum over the interior
\* cells of |value written to the cell - value that cell held immediately
\* before being written|.
C7_MeasureAgainstOverwritten ==
    pc = "sweep" /\ cell > NumInterior =>
        convergenceMeasure =
            SumOver(InteriorCells,
                    [c \in InteriorCells |->
                        Abs(WrittenValue(c)
                            - (IF solutionMethod = "Jacobi"
                               THEN sweepStart.updated[Flat(c)]
                               ELSE sweepStart.current[Flat(c)]))])

\* omega as a rational, compared with the rational p/q (q > 0).
OmegaAtLeast(p, q) == sorParameter.num * q >= p * sorParameter.den
OmegaAtMost(p, q) == sorParameter.num * q <= p * sorParameter.den

\* The run of the selected method has not converged: it is not in the
\* converged state, and a measure about to be checked is not below precision.
NotConverged ==
    /\ pc \notin {"converged", "done"}
    /\ pc = "check" => convergence >= precision

C9_NonPositiveDimensionFails ==
    pc # "construct" /\ (xRange <= 0 \/ yRange <= 0 \/ zRange <= 0) =>
        pc = "failed"

\* A value no cell holds before the loop is entered.
Probe == 2 * Scale + 1

\* C10: (i,j,k) -> i + j*xRange + k*xRange*yRange is a bijection from the
\* coordinates onto 0..xRange*yRange*zRange-1, and the potential and the
\* charge density are both accessed through it: a write at (i,j,k) changes
\* exactly one entry and is read back only at (i,j,k).
C10_IndexBijection ==
    pc \in {"initialise", "copy"} /\ xRange > 0 /\ yRange > 0 /\ zRange > 0 =>
        /\ {Index(c.i, c.j, c.k) : c \in Cells} = 0..(xRange * yRange * zRange - 1)
        /\ Cardinality({Index(c.i, c.j, c.k) : c \in Cells}) = Cardinality(Cells)
        /\ DOMAIN currentLattice.potential = 0..(xRange * yRange * zRange - 1)
        /\ DOMAIN currentLattice.chargeDensity = DOMAIN currentLattice.potential
        /\ \A c \in Cells :
              LET w == SetAt(currentLattice, c.i, c.j, c.k, Probe)
                  q == setChargeDensity(currentLattice, c.i, c.j, c.k, Probe)
              IN  /\ {idx \in DOMAIN w.potential :
                         w.potential[idx] # currentLattice.potential[idx]}
                        = {Flat(c)}
                  /\ w.chargeDensity = currentLattice.chargeDensity
                  /\ \A d \in Cells : At(w, d.i, d.j, d.k) = Probe <=> d = c
                  /\ {idx \in DOMAIN q.chargeDensity :
                         q.chargeDensity[idx] # currentLattice.chargeDensity[idx]}
                        = {Flat(c)}
                  /\ q.potential = currentLattice.potential
                  /\ \A d \in Cells :
                        getChargeDensity(q, d.i, d.j, d.k) = Probe <=> d = c
        /\ pc = "copy" =>
              \A d \in Cells :
                 getChargeDensity(currentLattice, d.i, d.j, d.k) # 0 <=> d = Centre

\* A lattice with different x and y ranges has been initialised and charged:
\* the potential written by initialise and the charge written by
\* setPointChargeDist are read back at their coordinates.
C10_Witness ==
    /\ pc = "copy"
    /\ xRange >= 3 /\ yRange >= 3 /\ zRange >= 3
    /\ xRange # yRange
    /\ getChargeDensity(currentLattice, Centre.i, Centre.j, Centre.k) = Scale
    /\ \A c \in InteriorCells : At(currentLattice, c.i, c.j, c.k) # 0
    /\ \A c \in Cells \ InteriorCells : At(currentLattice, c.i, c.j, c.k) = 0

\* The charge density of the default run: 1 at the centre cell, 0 elsewhere.
PointCharge(density) ==
    \A c \in Cells :
        density[Flat(c)] =
            IF c = [i |-> xRange \div 2, j |-> yRange \div 2, k |-> zRange \div 2]
            THEN Scale ELSE 0

\* C11: in every state of a default run after setPointChargeDist, the charge
\* density is 1 at the cell (xRange/2, yRange/2, zRange/2) and 0 at every other
\* cell, in currentLattice and in updatedLattice alike: no sweep and no swap
\* of the lattices changes a charge-density entry.
C11_PointChargeOnly ==
    xRange > 0 /\ yRange > 0 /\ zRange > 0 =>
        /\ pc \in {"copy", "switch"} \/ InLoop =>
              PointCharge(currentLattice.chargeDensity)
        /\ pc = "switch" \/ InLoop =>
              PointCharge(updatedLattice.chargeDensity)

\* A Jacobi run has completed two sweeps and swapped the lattices twice, both
\* potentials have changed, and both lattices carry the unit charge.
C11_Witness ==
    /\ pc = "check"
    /\ solutionMethod = "Jacobi"
    /\ counter >= 2
    /\ xRange >= 3 /\ yRange >= 3 /\ zRange >= 3
    /\ currentLattice.potential # runStart.current
    /\ updatedLattice.potential # runStart.current
    /\ \E c \in InteriorCells : currentLattice.chargeDensity[Flat(c)] = Scale
    /\ \E c \in InteriorCells : updatedLattice.chargeDensity[Flat(c)] = Scale

\* C12: on the 5x5x5 grid with permittivity 1, dx 1, zero noise, zero initial
\* value, unit point charge at (2,2,2) and precision 1e-6, the Gauss-Seidel
\* run performs strictly fewer sweeps before converging than the Jacobi run.
C12_GaussSeidelFewerSweeps ==
    /\ outputResults["GaussSeidel"] > 0 /\ outputResults["Jacobi"] > 0 =>
          outputResults["GaussSeidel"] < outputResults["Jacobi"]
    /\ outputResults["GaussSeidel"] > 0 /\ solutionMethod = "Jacobi"
                                        /\ pc \in {"converged", "done"} =>
          outputResults["GaussSeidel"] < counter
    /\ outputResults["Jacobi"] > 0 /\ solutionMethod = "GaussSeidel"
                                   /\ pc \in {"converged", "done"} =>
          counter < outputResults["Jacobi"]

\* Both runs have converged on the configuration and reported their sweeps.
C12_Witness ==
    /\ pc = "done"
    /\ xRange = 5 /\ yRange = 5 /\ zRange = 5
    /\ permittivity = 1 /\ spaceStep = 1
    /\ precision = PointPrecision
    /\ getChargeDensity(currentLattice, 2, 2, 2) = Scale
    /\ outputResults["GaussSeidel"] > 1
    /\ outputResults["Jacobi"] > 1

\* The potential of currentLattice at (2,2,2) is strictly greater than at
\* every other interior cell.
PeakAtCentre ==
    \A c \in InteriorCells :
        c # [i |-> 2, j |-> 2, k |-> 2] =>
            currentLattice.potential[Flat([i |-> 2, j |-> 2, k |-> 2])]
                > currentLattice.potential[Flat(c)]

\* C13: on the 5x5x5 grid with permittivity 1, dx 1, zero noise, zero initial
\* value, unit point charge at (2,2,2) and precision 1e-6, the Jacobi run
\* eventually reaches the converged state, and in the converged lattice the
\* potential at (2,2,2) is strictly greater than at every other interior cell.
C13_JacobiConvergesPeaked ==
    /\ (pc = "loop" /\ solutionMethod = "Jacobi" /\ counter = 0)
          ~> (pc = "converged" /\ solutionMethod = "Jacobi" /\ PeakAtCentre)
    /\ [](pc \in {"converged", "done"} /\ solutionMethod = "Jacobi" => PeakAtCentre)

\* The Jacobi run has converged after several sweeps on the configuration,
\* with a positive potential at (2,2,2).
C13_Witness ==
    /\ pc = "converged"
    /\ solutionMethod = "Jacobi"
    /\ xRange = 5 /\ yRange = 5 /\ zRange = 5
    /\ precision = PointPrecision
    /\ counter > 1
    /\ convergence < precision
    /\ At(currentLattice, 2, 2, 2) > 0
    /\ PeakAtCentre

\* C14: for every lattice and every one of jacobiUpdate, gaussSeidelUpdate
\* and sorUpdate, with any omega and any charge density, the measure the
\* update accumulates and returns is >= 0.
C14_MeasureNonNegative ==
    /\ convergenceMeasure >= 0
    /\ convergence >= 0
    /\ pc = "check" => convergence = convergenceMeasure

\* An update has returned a positive measure after lowering the potential of an
\* interior cell of a lattice that holds negative potentials.
C14_Witness ==
    /\ pc = "check"
    /\ convergence > 0
    /\ \E c \in Cells : sweepStart.current[Flat(c)] < 0
    /\ \E c \in InteriorCells :
          currentLattice.potential[Flat(c)] < sweepStart.current[Flat(c)]

\* The central difference -(phi(+1) - phi(-1))/(2*dx) per axis at cell c.
CentralDifference(c) ==
    <<RoundDiv(0 - (  currentLattice.potential[Flat(c) + 1]
                    - currentLattice.potential[Flat(c) - 1]), 2 * spaceStep),
      RoundDiv(0 - (  currentLattice.potential[Flat(c) + xRange]
                    - currentLattice.potential[Flat(c) - xRange]), 2 * spaceStep),
      RoundDiv(0 - (  currentLattice.potential[Flat(c) + xRange * yRange]
                    - currentLattice.potential[Flat(c) - xRange * yRange]),
               2 * spaceStep)>>

\* C15: for every boundary-shell cell the electric field the lattice reports
\* is the zero vector, from electricField(i,j,k) and from the serialization
\* alike, and every interior cell reports the central difference
\* -(phi(+1) - phi(-1))/(2*dx) per axis.
C15_BoundaryFieldZero ==
    pc = "done" =>
        \A c \in Cells :
            IF IsBoundary(c)
            THEN /\ poissonOutput[c].electricField = <<0, 0, 0>>
                 /\ electricField(currentLattice, c.i, c.j, c.k) = {<<0, 0, 0>>}
            ELSE /\ poissonOutput[c].electricField = CentralDifference(c)
                 /\ electricField(currentLattice, c.i, c.j, c.k)
                       = {CentralDifference(c)}

\* The part of C15 the serialization satisfies: its boundary rows carry the zero
\* vector and its interior rows the central difference.
C15_SerialisedField ==
    pc = "done" =>
        /\ DOMAIN poissonOutput = Cells
        /\ \A c \in Cells :
              /\ poissonOutput[c].potential = currentLattice.potential[Flat(c)]
              /\ poissonOutput[c].electricField =
                    IF IsBoundary(c) THEN <<0, 0, 0>> ELSE CentralDifference(c)

\* A converged lattice has been written out with a non-zero field at an
\* interior cell.
C15_Witness ==
    /\ pc = "done"
    /\ \E c \in InteriorCells : poissonOutput[c].electricField # <<0, 0, 0>>
    /\ \E c \in Cells : IsBoundary(c)

\* The potential the running sweep writes into, and what it held when the
\* sweep began; the potential the sweep must leave alone, likewise.
SweepTarget ==
    IF solutionMethod = "Jacobi"
    THEN updatedLattice.potential ELSE currentLattice.potential
SweepTargetStart ==
    IF solutionMethod = "Jacobi" THEN sweepStart.updated ELSE sweepStart.current
SweepOther ==
    IF solutionMethod = "Jacobi"
    THEN currentLattice.potential ELSE updatedLattice.potential
SweepOtherStart ==
    IF solutionMethod = "Jacobi" THEN sweepStart.current ELSE sweepStart.updated

\* The running sweep has written every interior cell, each once.
SweepComplete ==
    /\ Len(written) = NumInterior
    /\ WrittenCells = InteriorCells
    /\ Cardinality(WrittenCells) = Len(written)

\* C16: every sweep of every method writes each interior cell exactly once
\* and no other cell, and the driving loop compares the measure with precision
\* (and, for Jacobi, swaps the lattices) only between complete sweeps, never
\* after a partial sweep.
C16_SweepAtomic ==
    /\ [](pc = "sweep" =>
            /\ Len(written) = cell - 1
            /\ Cardinality(WrittenCells) = Len(written)
            /\ WrittenCells \subseteq InteriorCells
            /\ \A idx \in DOMAIN SweepTarget :
                  (\A c \in WrittenCells : Flat(c) # idx) =>
                      SweepTarget[idx] = SweepTargetStart[idx]
            /\ SweepOther = SweepOtherStart)
    /\ [](pc = "check" => SweepComplete)
    /\ [][ /\ pc' = "check" /\ pc # "check" => pc = "sweep" /\ SweepComplete
           /\ pc = "sweep" /\ ~SweepComplete =>
                 /\ pc' \in {"sweep", "outOfRange"}
                 /\ convergence' = convergence
                 /\ SweepOther' = SweepOther
                 /\ solutionMethod = "Jacobi" =>
                       currentLattice.potential' = currentLattice.potential
           /\ pc = "sweep" /\ SweepComplete => pc' = "check"
           /\ pc = "check" =>
                 /\ pc' \in {"loop", "converged"}
                 /\ currentLattice' = currentLattice
                 /\ updatedLattice' = updatedLattice
         ]_vars

\* A second sweep over eight interior cells has completed and changed them.
C16_Witness ==
    /\ pc = "check"
    /\ counter >= 2
    /\ NumInterior >= 8
    /\ SweepComplete
    /\ \A c \in InteriorCells :
          currentLattice.potential[Flat(c)] # sweepStart.current[Flat(c)]

\* The coordinates outside the updated region 0..range-1 that the stencil of
\* some updated cell reads: index -1 or xRange/yRange/zRange on one axis.
HaloNeighbours ==
    UNION {Neighbours(c) : c \in Cells} \ Cells

\* C17: in the halo variant every neighbour value the stencil reads from
\* outside the updated region comes from a storage slot that is distinct from
\* every updated cell's slot, lies inside the allocated buffer, is written by no
\* update, and holds 0 throughout any sequence of sweeps.
C17_HaloSlotsApart ==
    pc \in {"initialise", "setCharge", "copy", "switch", "loop", "sweep", "check",
            "converged"} =>
        \A n \in HaloNeighbours :
            /\ \A c \in Cells : HaloIndex(n.i, n.j, n.k) # HaloIndex(c.i, c.j, c.k)
            /\ HaloIndex(n.i, n.j, n.k) \in DOMAIN currentLattice.potential
            /\ currentLattice.potential[HaloIndex(n.i, n.j, n.k)] = 0
            /\ \A m \in 1..Len(written) :
                  HaloIndex(written[m].i, written[m].j, written[m].k)
                      # HaloIndex(n.i, n.j, n.k)

\* C18: in a Jacobi run, after every sweep and its swap, currentLattice holds
\* the field the most recent sweep produced and updatedLattice the field that
\* sweep read from; the lattice handed to output at convergence is the result
\* of the final sweep, and each of its interior values is the stencil of the
\* previous iterate: none survives from two sweeps earlier.
C18_JacobiSwapRoles ==
    /\ solutionMethod = "Jacobi" /\ pc = "sweep" =>
          currentLattice.potential = sweepStart.current
    /\ solutionMethod = "Jacobi" /\ counter >= 1
                                 /\ pc \in {"check", "loop", "converged", "done"} =>
          /\ updatedLattice.potential = sweepStart.current
          /\ \A c \in Cells :
                currentLattice.potential[Flat(c)] =
                    IF IsBoundary(c)
                    THEN sweepStart.updated[Flat(c)]
                    ELSE StencilOf(sweepStart.current, sweepStart.current,
                                   currentLattice.chargeDensity, c)
          /\ pc = "done" =>
                \A c \in Cells :
                    poissonOutput[c].potential = currentLattice.potential[Flat(c)]

\* A Jacobi run has converged after at least two sweeps and written out its
\* lattice; the last sweep overwrote a lattice whose interior held other values,
\* those of two sweeps earlier.
C18_Witness ==
    /\ pc = "done"
    /\ solutionMethod = "Jacobi"
    /\ counter >= 2
    /\ NumInterior >= 1
    /\ \E c \in InteriorCells :
          sweepStart.updated[Flat(c)] # currentLattice.potential[Flat(c)]
    /\ \E c \in InteriorCells : poissonOutput[c].potential # 0

\* C19: for all dimensions >= 3 and every sweep of every method, the stencil
\* is invoked only at interior coordinates, and every flat index read or
\* written in potential or chargeDensity lies in [0, xRange*yRange*zRange) and
\* is the index of the coordinate meant: none is wrapped or clamped.
C19_AccessInBounds ==
    xRange >= 3 /\ yRange >= 3 /\ zRange >= 3 /\ pc = "sweep" =>
        /\ \A n \in 1..Len(written) : written[n] \in InteriorCells
        /\ cell <= NumInterior =>
              LET c == CellAt(cell)
              IN  /\ c \in InteriorCells
                  /\ Index(c.i, c.j, c.k) \in 0..(xRange * yRange * zRange - 1)
                  /\ Index(c.i, c.j, c.k) \in DOMAIN currentLattice.potential
                  /\ Index(c.i, c.j, c.k) \in DOMAIN updatedLattice.potential
                  /\ Index(c.i, c.j, c.k) \in DOMAIN currentLattice.chargeDensity
                  /\ \A n \in Neighbours(c) :
                        /\ n \in Cells
                        /\ Index(n.i, n.j, n.k) \in 0..(xRange * yRange * zRange - 1)
                        /\ Index(n.i, n.j, n.k) \in DOMAIN currentLattice.potential
                        /\ Index(n.i, n.j, n.k) = Flat(n)
                        /\ At(currentLattice, n.i, n.j, n.k)
                              = currentLattice.potential[Flat(n)]

\* A sweep of a lattice with different x and y ranges is about to update its
\* last interior cell, whose upper neighbours are the last boundary cells.
C19_Witness ==
    /\ pc = "sweep"
    /\ xRange >= 3 /\ yRange >= 3 /\ zRange >= 3
    /\ xRange # yRange
    /\ NumInterior >= 2
    /\ cell = NumInterior
    /\ CellAt(cell) = [i |-> xRange - 2, j |-> yRange - 2, k |-> zRange - 2]
    /\ Len(written) = NumInterior - 1

\* All ranges are positive and one of them is 1 or 2: the lattice has no
\* interior cell.
NoInterior ==
    /\ xRange >= 1 /\ yRange >= 1 /\ zRange >= 1
    /\ xRange <= 2 \/ yRange <= 2 \/ zRange <= 2

\* C20: if one of xRange, yRange, zRange is 1 or 2 (the ranges being
\* positive), construction succeeds, initialise and every update leave the
\* potential all zero, every update returns 0, and for any precision > 0 the
\* driving loop converges after exactly one iteration, whatever the method,
\* omega and charge density.
C20_NoInteriorConvergesAtOnce ==
    NoInterior /\ pc # "construct" =>
        /\ pc \notin {"failed", "crashed", "outOfRange"}
        /\ NumInterior = 0
        /\ currentLattice.potential = Zeroes(xRange * yRange * zRange)
        /\ pc = "switch" \/ InLoop =>
              updatedLattice.potential = Zeroes(xRange * yRange * zRange)
        /\ convergenceMeasure = 0
        /\ convergence = 0
        /\ written = <<>>
        /\ counter <= 1
        /\ pc = "loop" => counter = 0
        /\ pc \in {"sweep", "check", "converged", "done"} => counter = 1
        /\ pc = "check" => precision > 0 /\ convergence < precision
        /\ pc = "done" => outputResults[solutionMethod] = 1

\* An SOR run with omega = 2 on a charged lattice with a range of 2 has
\* converged after its first sweep.
C20_Witness ==
    /\ pc = "done"
    /\ NoInterior
    /\ xRange = 2 /\ yRange >= 3 /\ zRange >= 3
    /\ solutionMethod = "SOR"
    /\ sorParameter.num = 2 * sorParameter.den
    /\ counter = 1
    /\ \E idx \in DOMAIN currentLattice.chargeDensity :
          currentLattice.chargeDensity[idx] # 0

====
